---------------------------- MODULE Spec2Model ----------------------------
(***************************************************************************)
(* A model of the wit version-control engine (src/wit.py,                  *)
(* src/utilities.py): the working tree, the staging area, the snapshot     *)
(* store with its metadata records, the reference file and the activated   *)
(* branch marker, and the commands init, add, rm, commit, checkout, branch *)
(* and merge acting on them.                                               *)
(*                                                                         *)
(* A directory tree is a function from Paths to nodes.  A path is the      *)
(* sequence of its components relative to the tree's root; two levels are  *)
(* modelled: the root holds "a" and "d", the directory "d" holds "a" and   *)
(* "d".  A file's content is a number (a one-line file whose line is that  *)
(* number).  Commit identifiers are 1, 2, ... in order of creation: the    *)
(* code draws 40 random characters, taken here to be fresh every time.     *)
(* Every command runs with the repository root as current directory.       *)
(***************************************************************************)
EXTENDS Integers, Sequences, FiniteSets, TLC

\* Bounds of the model: the commits and the file contents of Spec, the commits
\* of SpecHistory, the commits and contents of SpecWide, the commits of SpecDir.
MaxCommits == 2
MaxContent == 2
MaxHistory == 4
WideCommits == 3
WideContent == 3
DirCommits == 1
MergeDirCommits == 2
MaxLines == 2

-----------------------------------------------------------------------------
(* Directory trees *)

Root == <<>>
Paths == {<<"a">>, <<"d">>, <<"d", "a">>, <<"d", "d">>}
NameOrder == <<"a", "d">>

NoNode == [kind |-> "none", content |-> 0]
DirNode == [kind |-> "dir", content |-> 0]
FileNode(c) == [kind |-> "file", content |-> c]

EmptyTree == [p \in Paths |-> NoNode]

Parent(p) == SubSeq(p, 1, Len(p) - 1)
basename(p) == p[Len(p)]
Children(dir) == {p \in Paths : Parent(p) = dir}

isfile(t, p) == p \in Paths /\ t[p].kind = "file"
isdir(t, p) == p = Root \/ (p \in Paths /\ t[p].kind = "dir")
listdir(t, dir) == {p \in Children(dir) : t[p].kind # "none"}

\* The entries of S below dir in the sorted order filecmp.dircmp lists them.
SortedIn(S, dir) ==
    SelectSeq([i \in 1..Len(NameOrder) |-> dir \o <<NameOrder[i]>>],
              LAMBDA p : p \in S)

\* filecmp.dircmp(dir1, dir2) at the same relative directory of two trees.
left_only(t1, t2, dir) == listdir(t1, dir) \ listdir(t2, dir)
right_only(t1, t2, dir) == listdir(t2, dir) \ listdir(t1, dir)
common_files(t1, t2, dir) ==
    {p \in listdir(t1, dir) \cap listdir(t2, dir) : isfile(t1, p) /\ isfile(t2, p)}
common_dirs(t1, t2, dir) ==
    {p \in listdir(t1, dir) \cap listdir(t2, dir) : isdir(t1, p) /\ isdir(t2, p)}
\* Mutant: the comparison inverted, the equal files reported.
mismatch_equal(t1, t2, dir) ==
    {p \in common_files(t1, t2, dir) : t1[p].content = t2[p].content}

\* filecmp.cmpfiles(..., shallow=False)[1]: the common files whose bytes differ.
mismatch(t1, t2, dir) ==
    {p \in common_files(t1, t2, dir) : t1[p].content # t2[p].content}

RECURSIVE are_dir_trees_equal_at(_, _, _)
are_dir_trees_equal_at(t1, t2, dir) ==
    /\ left_only(t1, t2, dir) = {}
    /\ right_only(t1, t2, dir) = {}
    /\ mismatch(t1, t2, dir) = {}
    /\ \A cd \in common_dirs(t1, t2, dir) : are_dir_trees_equal_at(t1, t2, cd)

are_dir_trees_equal(t1, t2) == are_dir_trees_equal_at(t1, t2, Root)

RECURSIVE ConcatDiffs(_, _, _, _, _)
RECURSIVE get_dirs_diffs_at(_, _, _, _)
\* The paths (relative to dir2's root) get_dirs_diffs appends to `changes`.
get_dirs_diffs_at(t1, t2, dir, by_content) ==
    LET here == IF by_content
                THEN SortedIn(mismatch(t1, t2, dir), dir)
                ELSE SortedIn(right_only(t1, t2, dir), dir)
    IN here \o ConcatDiffs(t1, t2, SortedIn(common_dirs(t1, t2, dir), dir), 1, by_content)

ConcatDiffs(t1, t2, dirs, i, by_content) ==
    IF i > Len(dirs) THEN <<>>
    ELSE get_dirs_diffs_at(t1, t2, dirs[i], by_content)
         \o ConcatDiffs(t1, t2, dirs, i + 1, by_content)

get_dirs_diffs(t1, t2, by_content) == get_dirs_diffs_at(t1, t2, Root, by_content)

\* The tree with the subtree at p removed (os.remove, shutil.rmtree).
RemoveAt(t, p) ==
    [q \in Paths |-> IF q = p \/ Parent(q) = p THEN NoNode ELSE t[q]]

\* shutil.copy2(src, dst) of a file named `name` with content c into tree t:
\* into dst when dst is a directory, else onto dst itself.  ok is FALSE when
\* the write raises OSError (the target is a directory, or its parent is no
\* directory); nothing is written then.
copy2(t, name, c, dst) ==
    LET target == IF isdir(t, dst) THEN dst \o <<name>> ELSE dst
    IN IF target \in Paths /\ isdir(t, Parent(target)) /\ ~isdir(t, target)
       THEN [ok |-> TRUE, tree |-> [t EXCEPT ![target] = FileNode(c)]]
       ELSE [ok |-> FALSE, tree |-> t]

RECURSIVE copy_tree(_, _, _)
RECURSIVE copy_names(_, _, _, _)
\* distutils copy_tree(src/dir, dst/dir): mkpath(dst/dir), which raises when
\* dst/dir is a file, then every entry of src/dir copied over, directories
\* merged and files overwritten.  Nothing of dst is deleted.
copy_tree(src, dst, dir) ==
    IF dir # Root /\ isfile(dst, dir)
    THEN [ok |-> FALSE, tree |-> dst]
    ELSE copy_names(src,
                    IF dir = Root THEN dst ELSE [dst EXCEPT ![dir] = DirNode],
                    SortedIn(listdir(src, dir), dir), 1)

copy_names(src, dst, names, i) ==
    IF i > Len(names) THEN [ok |-> TRUE, tree |-> dst]
    ELSE LET p == names[i]
             r == IF isdir(src, p)
                  THEN copy_tree(src, dst, p)
                  ELSE copy2(dst, basename(p), src[p].content, p)
         IN IF r.ok THEN copy_names(src, r.tree, names, i + 1) ELSE r

\* The absolute path of a working-tree path: status() joins every reported
\* name to home_dir, the absolute path split_path returns.
home_dir == <<"/", "home">>
abspath(p) == home_dir \o p

RECURSIVE execute_checkout_items(_, _, _, _)
\* execute_checkout(src/dir, dst/dir, ignore), the entries `todo` of
\* os.listdir(src/dir) still to come.  os.listdir promises no order, so every
\* order is a possible run: the result is the set of outcomes.  A file is
\* skipped when its bare name is an element of `ignore`.  A copy that raises
\* OSError ends the run (ok FALSE), what was copied before it stays.
execute_checkout_items(src, dst, todo, ignore) ==
    IF todo = {} THEN {[ok |-> TRUE, tree |-> dst]}
    ELSE UNION {
        LET rs == IF isdir(src, item)
                  THEN execute_checkout_items(src, dst, listdir(src, item), ignore)
                  ELSE IF \E i \in 1..Len(ignore) : ignore[i] = <<basename(item)>>
                       THEN {[ok |-> TRUE, tree |-> dst]}
                       ELSE {copy2(dst, basename(item), src[item].content, item)}
        IN UNION {IF r.ok
                  THEN execute_checkout_items(src, r.tree, todo \ {item}, ignore)
                  ELSE {r} : r \in rs}
        : item \in todo}

execute_checkout(src, dst, ignore) ==
    execute_checkout_items(src, dst, listdir(src, Root), ignore)

-----------------------------------------------------------------------------
(* The reference file, the metadata records and the history walk *)

BranchNames == {"master", "feature"}
WritePaths == {<<"a">>, <<"d", "a">>}

\* references.txt as the sequence of its lines name=commit; <<>>: no file.
get_head_commit_id(refs) == refs[1].commit

\* A dict built from the lines after the first: a later line of a name wins.
get_branches(refs) ==
    [n \in {refs[i].name : i \in 2..Len(refs)} |->
        refs[CHOOSE i \in 2..Len(refs) :
                /\ refs[i].name = n
                /\ \A j \in (i + 1)..Len(refs) : refs[j].name # n].commit]

\* Mutant: every line rewritten, not only HEAD's and the branch's.
update_references_all(refs, commit_id, branch) ==
    [i \in 1..Len(refs) |-> [name |-> refs[i].name, commit |-> commit_id]]

\* Mutant: only HEAD's line rewritten.
update_references_head_only(refs, commit_id, branch) ==
    [i \in 1..Len(refs) |->
        IF refs[i].name = "HEAD"
        THEN [name |-> "HEAD", commit |-> commit_id]
        ELSE refs[i]]

update_references(refs, commit_id, branch) ==
    [i \in 1..Len(refs) |->
        IF refs[i].name = "HEAD" \/ refs[i].name = branch
        THEN [name |-> refs[i].name, commit |-> commit_id]
        ELSE refs[i]]

\* Mutant: HEAD left out of the parent line.
create_meta_data_no_head(commit_id, refs, message, second_parent) ==
    [parent |-> IF refs # <<>> THEN second_parent ELSE <<>>,
     message |-> message]

\* Mutant: the new commit recorded as its own parent.
create_meta_data_self(commit_id, refs, message, second_parent) ==
    [parent |-> IF refs # <<>> THEN <<commit_id>> \o second_parent ELSE <<>>,
     message |-> message]

\* Mutant: the second parent written before HEAD.
create_meta_data_swapped(commit_id, refs, message, second_parent) ==
    [parent |-> IF refs # <<>>
                THEN second_parent \o <<get_head_commit_id(refs)>>
                ELSE <<>>,
     message |-> message]

\* The record <commit_id>.txt: the parent line as a sequence (<<>> for
\* parent=None) and the message; second_parent is <<>> for None.
create_meta_data(commit_id, refs, message, second_parent) ==
    [parent |-> IF refs # <<>>
                THEN <<get_head_commit_id(refs)>> \o second_parent
                ELSE <<>>,
     message |-> message]

get_parents(mt, commit_id) == mt[commit_id].parent

RECURSIVE get_all_commits_util(_, _)
RECURSIVE walk_parents(_, _, _)
get_all_commits_util(mt, current_commit) ==
    <<current_commit>> \o walk_parents(mt, get_parents(mt, current_commit), 1)

walk_parents(mt, parents, i) ==
    IF i > Len(parents) THEN <<>>
    ELSE get_all_commits_util(mt, parents[i]) \o walk_parents(mt, parents, i + 1)

\* Mutant: every commit listed once, where the walk first meets it.
get_all_commits_once(mt, commit_id) ==
    LET s == get_all_commits_util(mt, commit_id)
        d[i \in 0..Len(s)] ==
            IF i = 0 THEN <<>>
            ELSE IF \E j \in 1..Len(d[i - 1]) : d[i - 1][j] = s[i]
                 THEN d[i - 1]
                 ELSE Append(d[i - 1], s[i])
    IN d[Len(s)]

get_all_commits(mt, commit_id) == get_all_commits_util(mt, commit_id)

InSeq(x, s) == \E i \in 1..Len(s) : s[i] = x

\* merge's scan of src_commits: every match overwrites common_commit, so the
\* last match is what the loop leaves; <<>> stands for None.
common_commit(src_commits, head_commits) ==
    LET hits == {i \in 1..Len(src_commits) : InSeq(src_commits[i], head_commits)}
    IN IF hits = {} THEN <<>>
       ELSE <<src_commits[CHOOSE i \in hits : \A j \in hits : j <= i]>>

UserMessage == [text |-> "m", head |-> 0, src |-> 0]
MergeMessage(h, s) == [text |-> "Merge of", head |-> h, src |-> s]

-----------------------------------------------------------------------------
(* merge_common_changes *)

\* A text file as merge_common_changes sees it: the lines splitlines() gives.
LineTexts == {1, 2, 3}
Lines(n) == UNION {[1..k -> LineTexts] : k \in 0..n}

\* dst before anything is written to it, and after.
NoFile == [written |-> FALSE, lines |-> <<>>]
Written(lines) == [written |-> TRUE, lines |-> lines]

\* Mutant: the head line taken whenever no ValueError is raised.
merge_row_head(common_line, branch_line, head_line) ==
    IF common_line # head_line /\ common_line # branch_line
    THEN [raised |-> "ValueError", line |-> 0]
    ELSE [raised |-> "none", line |-> head_line]

\* The row both files have: ValueError when both differ from the common
\* line, the branch line when only it differs, else the head line.
merge_row(common_line, branch_line, head_line) ==
    IF common_line # head_line /\ common_line # branch_line
    THEN [raised |-> "ValueError", line |-> 0]
    ELSE IF common_line = head_line /\ common_line # branch_line
    THEN [raised |-> "none", line |-> branch_line]
    ELSE [raised |-> "none", line |-> head_line]

RECURSIVE merged_rows(_, _, _, _, _)
\* The while loop from row i on (rows counted from 1), merged_content so far
\* being `merged`.  common_content[i] is read only when both files have the
\* row, and raises IndexError when the common file has none.
merged_rows(common_content, branch_content, head_content, i, merged) ==
    IF ~(i <= Len(branch_content) \/ i <= Len(head_content))
    THEN [raised |-> "none", merged |-> merged]
    ELSE IF i > Len(branch_content)
    THEN merged_rows(common_content, branch_content, head_content, i + 1,
                     Append(merged, head_content[i]))
    ELSE IF i > Len(head_content)
    THEN merged_rows(common_content, branch_content, head_content, i + 1,
                     Append(merged, branch_content[i]))
    ELSE IF i > Len(common_content)
    THEN [raised |-> "IndexError", merged |-> merged]
    ELSE LET row == merge_row(common_content[i], branch_content[i], head_content[i])
         IN IF row.raised # "none"
            THEN [raised |-> row.raised, merged |-> merged]
            ELSE merged_rows(common_content, branch_content, head_content, i + 1,
                             Append(merged, row.line))

\* merge_common_changes: dst is written after the loop, so not at all when
\* the loop raises.
merge_common_changes(common_content, branch_content, head_content, dst) ==
    LET r == merged_rows(common_content, branch_content, head_content, 1, <<>>)
    IN [raised |-> r.raised,
        dst |-> IF r.raised = "none" THEN Written(r.merged) ELSE dst]

-----------------------------------------------------------------------------
(* State *)

VARIABLES
    wit,         \* whether the .wit directory exists
    work,        \* the working tree (without .wit and the log file)
    staging,     \* .wit/staging_area
    images,      \* images[c]: the snapshot directory of commit c
    meta,        \* meta[c]: the metadata record of commit c
    references,  \* .wit/images/references.txt
    activated,   \* .wit/activated.txt
    common_file, \* the lines of the file merge_common_changes reads as common_file
    branch_file, \* the lines of its branch_file
    head_file,   \* the lines of its head_file
    dst_file,    \* the file at its dst
    raised       \* how its call ended: the exception raised, "none" if none

repository == <<wit, work, staging, images, meta, references, activated>>
files == <<common_file, branch_file, head_file, dst_file, raised>>
vars == <<repository, files>>

\* The state as one record: a command is a function from the state it
\* finds to how it ends (res) and the state it leaves (st).
Cur == [wit |-> wit, work |-> work, staging |-> staging, images |-> images,
        meta |-> meta, references |-> references, activated |-> activated]

Becomes(s) ==
    /\ wit' = s.wit
    /\ work' = s.work
    /\ staging' = s.staging
    /\ images' = s.images
    /\ meta' = s.meta
    /\ references' = s.references
    /\ activated' = s.activated
    /\ UNCHANGED files

Ends(res, s) == [res |-> res, st |-> s]

\* What checkout and merge take: a branch name or a raw commit identifier.
BranchTarget(n) == [kind |-> "branch", name |-> n, id |-> 0]
IdTarget(c) == [kind |-> "id", name |-> "", id |-> c]
BranchTargets == {BranchTarget(n) : n \in BranchNames}
Targets(limit) == BranchTargets \cup {IdTarget(c) : c \in 1..limit}

\* param looked up in the branches, else taken as the commit identifier
\* itself; 0 names no snapshot directory (a name that is no branch).
is_branch(refs, param) ==
    param.kind = "branch" /\ param.name \in DOMAIN get_branches(refs)

\* Mutant: the commit HEAD is on taken, whatever param names.
resolve_as_head(refs, param) == get_head_commit_id(refs)

resolve(refs, param) ==
    IF is_branch(refs, param) THEN get_branches(refs)[param.name] ELSE param.id

-----------------------------------------------------------------------------
(* The commands *)

\* Mutant: activated.txt left unwritten.
init_unmarked(s) ==
    IF s.wit
    THEN Ends("FilesystemError", s)
    ELSE Ends("ok", [s EXCEPT !.wit = TRUE])

init(s) ==
    IF s.wit
    THEN Ends("FilesystemError", s)
    ELSE Ends("ok", [s EXCEPT !.wit = TRUE, !.activated = "master"])

add(s, path, ans) ==
    IF ~isdir(s.work, path) /\ ~isfile(s.work, path)
    THEN Ends("PathNotFound", s)
    ELSE IF ~s.wit
    THEN Ends("RepositoryNotFound", s)
    ELSE IF isfile(s.work, path)
    THEN IF isfile(s.staging, path) /\ ans = "n"
         THEN Ends("Declined", s)
         ELSE LET r == copy2(s.staging, basename(path), s.work[path].content, Parent(path))
              IN Ends(IF r.ok THEN "ok" ELSE "crash", [s EXCEPT !.staging = r.tree])
    ELSE LET r == copy_tree(s.work, s.staging, path)
         IN Ends(IF r.ok THEN "ok" ELSE "crash", [s EXCEPT !.staging = r.tree])

remove(s, path, ans) ==
    IF ~s.wit
    THEN Ends("RepositoryNotFound", s)
    ELSE IF isfile(s.staging, path)
    THEN Ends("ok", [s EXCEPT !.staging = RemoveAt(s.staging, path)])
    ELSE IF isdir(s.staging, path)
    THEN IF ans = "y"
         THEN Ends("ok", [s EXCEPT !.staging = RemoveAt(s.staging, path)])
         ELSE Ends("Declined", s)
    ELSE Ends("NotFound", s)

\* Mutant: an identifier other than that of the directory made.
create_image_dir_other(s) == Len(s.images) + 2

\* The identifier create_image_dir draws: a fresh one.
create_image_dir(s) == Len(s.images) + 1

\* Mutant: the first reference file without the default branch.
first_references_head_only(commit_id) ==
    <<[name |-> "HEAD", commit |-> commit_id]>>

\* The reference file the first commit writes.
first_references(commit_id) ==
    <<[name |-> "HEAD", commit |-> commit_id],
      [name |-> "master", commit |-> commit_id]>>

\* Mutant: after the first commit, the snapshot written into the directory
\* of the HEAD commit and its record rewritten, no new commit made.
commit_in_place(s, message, second_parent) ==
    IF ~s.wit
    THEN Ends("RepositoryNotFound", s)
    ELSE IF /\ s.references # <<>>
            /\ are_dir_trees_equal(s.images[get_head_commit_id(s.references)], s.staging)
    THEN Ends("NoChange", s)
    ELSE IF s.references # <<>>
    THEN LET head == get_head_commit_id(s.references)
         IN Ends("ok",
                 [s EXCEPT
                    !.images[head] = copy_tree(s.staging, EmptyTree, Root).tree,
                    !.meta[head].message = message])
    ELSE LET commit_id == create_image_dir(s)
         IN Ends("ok",
                 [s EXCEPT
                    !.images = Append(@, copy_tree(s.staging, EmptyTree, Root).tree),
                    !.meta = Append(@, create_meta_data(commit_id, s.references, message, second_parent)),
                    !.references = first_references(commit_id)])

commit(s, message, second_parent) ==
    IF ~s.wit
    THEN Ends("RepositoryNotFound", s)
    ELSE IF /\ s.references # <<>>
            /\ are_dir_trees_equal(s.images[get_head_commit_id(s.references)], s.staging)
    THEN Ends("NoChange", s)
    ELSE LET commit_id == create_image_dir(s)
         IN Ends("ok",
                 [s EXCEPT
                    !.images = Append(@, copy_tree(s.staging, EmptyTree, Root).tree),
                    !.meta = Append(@, create_meta_data(commit_id, s.references, message, second_parent)),
                    !.references =
                        IF s.references # <<>>
                        THEN update_references(s.references, commit_id, s.activated)
                        ELSE first_references(commit_id)])

\* Mutant: the new entry written before the existing lines.
branch_first(s, name) ==
    IF ~s.wit
    THEN Ends("RepositoryNotFound", s)
    ELSE IF s.references = <<>>
    THEN Ends("NoCommit", s)
    ELSE IF \E i \in 1..Len(s.references) : s.references[i].name = name
    THEN Ends("BranchExists", s)
    ELSE Ends("ok", [s EXCEPT !.references =
                        <<[name |-> name,
                           commit |-> get_head_commit_id(s.references)]>> \o @])

branch(s, name) ==
    IF ~s.wit
    THEN Ends("RepositoryNotFound", s)
    ELSE IF s.references = <<>>
    THEN Ends("NoCommit", s)
    ELSE IF \E i \in 1..Len(s.references) : s.references[i].name = name
    THEN Ends("BranchExists", s)
    ELSE Ends("ok", [s EXCEPT !.references =
                        Append(@, [name |-> name,
                                   commit |-> get_head_commit_id(s.references)])])

\* status(checkout=True): the three lists, as paths of the second tree.
status(s) ==
    LET head_commit_id == get_head_commit_id(s.references)
    IN [changes_to_commit |-> get_dirs_diffs(s.images[head_commit_id], s.staging, FALSE),
        changes_not_staged |-> get_dirs_diffs(s.staging, s.work, TRUE),
        untracked_files |-> get_dirs_diffs(s.staging, s.work, FALSE)]

\* Mutant: only the staged changes looked at.
has_changes_staged_only(st) == Len(st.changes_to_commit) > 0

\* checkout's test of the status lists: changes to commit, or changes not
\* staged.
has_changes(st) ==
    Len(st.changes_to_commit) > 0 \/ Len(st.changes_not_staged) > 0

\* checkout(param): the set of ways it can end (one per order of os.listdir
\* that makes a difference).
checkout(s, param) ==
    IF ~s.wit
    THEN {Ends("RepositoryNotFound", s)}
    ELSE IF s.references = <<>>
    THEN {Ends("NoCommit", s)}
    ELSE
    LET st == status(s)
        untracked_files ==
            [i \in 1..Len(st.untracked_files) |-> abspath(st.untracked_files[i])]
        commit_id == resolve(s.references, param)
    IN IF has_changes(st)
       THEN {Ends("UncommittedChanges", s)}
       ELSE IF commit_id \notin 1..Len(s.images)
       THEN {Ends("FilesystemError", s)}
       ELSE UNION {
            IF ~r1.ok
            THEN {Ends("FilesystemError", [s EXCEPT !.work = r1.tree])}
            ELSE {IF ~r2.ok
                  THEN Ends("FilesystemError",
                            [s EXCEPT !.work = r1.tree, !.staging = r2.tree])
                  ELSE IF is_branch(s.references, param)
                  THEN Ends("ok",
                            [s EXCEPT !.work = r1.tree, !.staging = r2.tree,
                                      !.references = update_references(@, commit_id, param.name),
                                      !.activated = param.name])
                  ELSE \* get_activated_branch(references_path) raises
                       Ends("crash", [s EXCEPT !.work = r1.tree, !.staging = r2.tree])
                  : r2 \in execute_checkout(s.images[commit_id], s.staging, <<>>)}
            : r1 \in execute_checkout(s.images[commit_id], s.work, untracked_files)}

RECURSIVE copy_changed(_, _, _, _)
\* merge's loop over files_changed: copy2 of each item of the source snapshot
\* onto the same relative path of the staging area.  An item that is a
\* directory, or whose staged parent is no directory, raises.
copy_changed(src, stg, files_changed, i) ==
    IF i > Len(files_changed) THEN [ok |-> TRUE, tree |-> stg]
    ELSE LET item == files_changed[i]
             r == IF isdir(src, item)
                  THEN [ok |-> FALSE, tree |-> stg]
                  ELSE copy2(stg, basename(item), src[item].content, item)
         IN IF r.ok THEN copy_changed(src, r.tree, files_changed, i + 1) ELSE r

\* The commit merge takes as the common basis of HEAD and the source.
merge_base(s, src_commit_id) ==
    common_commit(get_all_commits(s.meta, src_commit_id),
                  get_all_commits(s.meta, get_head_commit_id(s.references)))

merge(s, param) ==
    IF ~s.wit
    THEN Ends("RepositoryNotFound", s)
    ELSE IF s.references = <<>>
    THEN \* get_branches opens the missing reference file
         Ends("crash", s)
    ELSE
    LET src_commit_id == resolve(s.references, param)
    IN IF src_commit_id \notin 1..Len(s.meta)
       THEN Ends("WrongCommit", s)
       ELSE
       LET head_commits == get_all_commits(s.meta, get_head_commit_id(s.references))
           common == merge_base(s, src_commit_id)
       IN IF common = <<>>
          THEN Ends("NoCommonAncestor", s)
          ELSE
          LET files_changed ==
                  get_dirs_diffs(s.images[common[1]], s.images[src_commit_id], FALSE)
                  \o get_dirs_diffs(s.images[common[1]], s.images[src_commit_id], TRUE)
              copied == copy_changed(s.images[src_commit_id], s.staging, files_changed, 1)
              staged == [s EXCEPT !.staging = copied.tree]
              c == commit(staged, MergeMessage(head_commits[1], src_commit_id),
                          <<src_commit_id>>)
          IN IF ~copied.ok
             THEN Ends("crash", staged)
             ELSE IF c.res # "ok"
             THEN c
             ELSE Ends("ok", [c.st EXCEPT !.references =
                                update_references(@, Len(c.st.images), s.activated)])

-----------------------------------------------------------------------------
(* The user's edits of the working tree *)

\* Contents are only ever compared for equality, so a run is what it is up
\* to a renaming of the contents: a content not yet anywhere in the
\* repository is written as the least unused number.
Used(t) == {t[p].content : p \in Paths}
MaxUsed ==
    LET all == Used(work) \cup Used(staging)
               \cup UNION {Used(images[c]) : c \in 1..Len(images)}
    IN CHOOSE m \in all \cup {0} : \A n \in all : n <= m

WriteFile(p, c) ==
    /\ c <= MaxUsed + 1
    /\ isdir(work, Parent(p))
    /\ ~isdir(work, p)
    /\ work[p] # FileNode(c)
    /\ work' = [work EXCEPT ![p] = FileNode(c)]
    /\ UNCHANGED <<wit, staging, images, meta, references, activated>>
    /\ UNCHANGED files

MakeDir(p) ==
    /\ work[p].kind = "none"
    /\ work' = [work EXCEPT ![p] = DirNode]
    /\ UNCHANGED <<wit, staging, images, meta, references, activated>>
    /\ UNCHANGED files

Delete(p) ==
    /\ work[p].kind # "none"
    /\ work' = RemoveAt(work, p)
    /\ UNCHANGED <<wit, staging, images, meta, references, activated>>
    /\ UNCHANGED files

-----------------------------------------------------------------------------
(* The commands as steps *)

InitStep == Becomes(init(Cur).st)
AddStep(path, ans) == Becomes(add(Cur, path, ans).st)
RemoveStep(path, ans) == Becomes(remove(Cur, path, ans).st)
CommitStep(limit) ==
    LET r == commit(Cur, UserMessage, <<>>)
    IN Len(r.st.images) <= limit /\ Becomes(r.st)
BranchStep(name) == Becomes(branch(Cur, name).st)
CheckoutStep(param) == \E r \in checkout(Cur, param) : Becomes(r.st)
MergeStep(param, limit) ==
    LET r == merge(Cur, param)
    IN Len(r.st.images) <= limit /\ Becomes(r.st)

Init ==
    /\ wit = FALSE
    /\ work = EmptyTree
    /\ staging = EmptyTree
    /\ images = <<>>
    /\ meta = <<>>
    /\ references = <<>>
    /\ activated = ""
    /\ common_file = <<>>
    /\ branch_file = <<>>
    /\ head_file = <<>>
    /\ dst_file = NoFile
    /\ raised = "pending"

\* Spec: every command with every argument, on a repository of the one
\* file "a".
Next ==
    \/ \E c \in 1..MaxContent : WriteFile(<<"a">>, c)
    \/ Delete(<<"a">>)
    \/ InitStep
    \/ \E ans \in {"y", "n"} : AddStep(<<"a">>, ans)
    \/ \E ans \in {"y", "n"} : RemoveStep(<<"a">>, ans)
    \/ CommitStep(MaxCommits)
    \/ \E n \in BranchNames : BranchStep(n)
    \/ \E t \in Targets(MaxCommits) : CheckoutStep(t)
    \/ \E t \in Targets(MaxCommits) : MergeStep(t, MaxCommits)

Spec == Init /\ [][Next]_vars

\* SpecWide: as Spec, with one more commit and one more content.
NextWide ==
    \/ \E c \in 1..WideContent : WriteFile(<<"a">>, c)
    \/ Delete(<<"a">>)
    \/ InitStep
    \/ \E ans \in {"y", "n"} : AddStep(<<"a">>, ans)
    \/ \E ans \in {"y", "n"} : RemoveStep(<<"a">>, ans)
    \/ CommitStep(WideCommits)
    \/ \E n \in BranchNames : BranchStep(n)
    \/ \E t \in Targets(WideCommits) : CheckoutStep(t)
    \/ \E t \in Targets(WideCommits) : MergeStep(t, WideCommits)

SpecWide == Init /\ [][NextWide]_vars

\* SpecHistory: the commit graphs of up to MaxHistory commits.  The user
\* writes "a" and stages it, commits, branches, and checks out and merges
\* branches by name; two contents are enough for every commit to differ from
\* its parent.
HistContents == {1, 2}

NextHistory ==
    \/ \E c \in HistContents : WriteFile(<<"a">>, c)
    \/ InitStep
    \/ AddStep(<<"a">>, "y")
    \/ CommitStep(MaxHistory)
    \/ \E n \in BranchNames : BranchStep(n)
    \/ \E t \in BranchTargets : CheckoutStep(t)
    \/ \E t \in BranchTargets : MergeStep(t, MaxHistory)

SpecHistory == Init /\ [][NextHistory]_vars

\* SpecDir: a working tree with the directory "d": the user makes it, writes
\* "a" and "d/a" (one content) and deletes; every path is added and removed.
DirContents == {1}

NextDir ==
    \/ \E p \in WritePaths, c \in DirContents : WriteFile(p, c)
    \/ MakeDir(<<"d">>)
    \/ \E p \in Paths : Delete(p)
    \/ InitStep
    \/ \E p \in Paths, ans \in {"y", "n"} : AddStep(p, ans)
    \/ \E p \in Paths, ans \in {"y", "n"} : RemoveStep(p, ans)
    \/ CommitStep(DirCommits)
    \/ \E n \in BranchNames : BranchStep(n)
    \/ \E t \in Targets(DirCommits) : CheckoutStep(t)
    \/ \E t \in Targets(DirCommits) : MergeStep(t, DirCommits)

SpecDir == Init /\ [][NextDir]_vars

\* SpecMergeDir: merges of snapshots that hold the directory "d": the user
\* makes it, writes "a" and "d/a", stages "a" and "d" and takes them out of
\* the staging area again, commits, branches, and checks out and merges
\* branches by name.
StagedPaths == {<<"a">>, <<"d">>}

NextMergeDir ==
    \/ \E p \in WritePaths, c \in DirContents : WriteFile(p, c)
    \/ MakeDir(<<"d">>)
    \/ InitStep
    \/ \E p \in StagedPaths : AddStep(p, "y")
    \/ \E p \in StagedPaths : RemoveStep(p, "y")
    \/ CommitStep(MergeDirCommits)
    \/ \E n \in BranchNames : BranchStep(n)
    \/ \E t \in BranchTargets : CheckoutStep(t)
    \/ \E t \in BranchTargets : MergeStep(t, MergeDirCommits)

SpecMergeDir == Init /\ [][NextMergeDir]_vars

\* SpecLines: merge_common_changes called once on three files of up to
\* MaxLines lines each, dst not being there before.
MergeCommonChangesStep ==
    /\ raised = "pending"
    /\ LET r == merge_common_changes(common_file, branch_file, head_file, dst_file)
       IN /\ raised' = r.raised
          /\ dst_file' = r.dst
    /\ UNCHANGED <<repository, common_file, branch_file, head_file>>

InitLines ==
    /\ wit = FALSE
    /\ work = EmptyTree
    /\ staging = EmptyTree
    /\ images = <<>>
    /\ meta = <<>>
    /\ references = <<>>
    /\ activated = ""
    /\ common_file \in Lines(MaxLines)
    /\ branch_file \in Lines(MaxLines)
    /\ head_file \in Lines(MaxLines)
    /\ dst_file = NoFile
    /\ raised = "pending"

NextLines == MergeCommonChangesStep

SpecLines == InitLines /\ [][NextLines]_vars

-----------------------------------------------------------------------------
(* The claims *)

HasCommit == wit /\ references # <<>>
HeadId == get_head_commit_id(references)
Exists(c) == c \in 1..Len(images)

\* The first commit of the source history, in walk order, that is also in
\* the HEAD history; <<>> if there is none.
first_common(src_commits, head_commits) ==
    LET hits == {i \in 1..Len(src_commits) : InSeq(src_commits[i], head_commits)}
    IN IF hits = {} THEN <<>>
       ELSE <<src_commits[CHOOSE i \in hits : \A j \in hits : i <= j]>>

\* C1: commit called twice in a row, the staging area not changed in
\* between, creates no commit the second time: no identifier is allocated,
\* no snapshot or metadata record is added, HEAD and every branch keep
\* their values.
C1_CommitTwice ==
    LET first == commit(Cur, UserMessage, <<>>)
        second == commit(first.st, UserMessage, <<>>)
    IN /\ second.res # "ok"
       /\ second.st.images = first.st.images
       /\ second.st.meta = first.st.meta
       /\ second.st.references = first.st.references

\* A commit has just been made of a staged directory and its file, and a
\* second call is due.
C1_Witness ==
    /\ HasCommit
    /\ HeadId = Len(images)
    /\ isdir(staging, <<"d">>)
    /\ isfile(staging, <<"d", "a">>)
    /\ images[HeadId] = staging
    /\ commit(Cur, UserMessage, <<>>).res = "NoChange"

\* C2: a checkout of an existing commit c, by branch name or by raw
\* identifier, that uncommitted changes do not block leaves every file of
\* c's snapshot in the working tree with the content it has in the snapshot
\* (the copy of the staging area made when c was created).
C2_RoundTrip ==
    HasCommit =>
        \A t \in Targets(DirCommits) : \A r \in checkout(Cur, t) :
            LET c == resolve(references, t)
            IN (Exists(c) /\ r.res # "UncommittedChanges") =>
                    \A p \in Paths :
                        isfile(images[c], p) => r.st.work[p] = images[c][p]

\* C3: every name of the reference set, HEAD and every branch, maps to a
\* commit identifier whose snapshot is in the store.
C3_ReferenceIntegrity ==
    \A i \in 1..Len(references) : Exists(references[i].commit)

\* HEAD and two branches, on different commits.
C3_Witness ==
    /\ Len(references) = 3
    /\ references[2].commit # references[3].commit
    /\ C3_ReferenceIntegrity

\* C4: a commit made while branch A is activated (by commit, or by merge's
\* call of it) changes only HEAD and A's reference: every other branch maps
\* to the commit it mapped to before, and the activated branch marker is
\* unchanged.
OthersKept(r) ==
    /\ r.st.activated = activated
    /\ Len(r.st.references) = Len(references)
    /\ \A i \in 1..Len(references) :
          references[i].name \notin {"HEAD", activated} =>
              r.st.references[i] = references[i]

C4_BranchIsolation ==
    HasCommit =>
        /\ LET r == commit(Cur, UserMessage, <<>>)
           IN r.res = "ok" => OthersKept(r)
        /\ \A t \in Targets(MaxCommits) :
              LET r == merge(Cur, t)
              IN r.res = "ok" => OthersKept(r)

\* The activated branch has moved on from the commit the other branch
\* stayed at.
C4_Witness ==
    /\ HasCommit
    /\ \E i, j \in 2..Len(references) :
          /\ references[i].name = activated
          /\ references[j].name # activated
          /\ references[i].commit = Len(images)
          /\ references[j].commit < references[i].commit
          /\ HeadId = references[i].commit

RECURSIVE walk(_, _, _)
RECURSIVE walk_all(_, _, _, _)
\* The history walk from commit c cut off at `depth` nested calls: done says
\* whether the walk came to its end within them.
walk(mt, c, depth) ==
    IF depth = 0 THEN [done |-> FALSE, commits |-> <<>>]
    ELSE LET rest == walk_all(mt, get_parents(mt, c), 1, depth - 1)
         IN [done |-> rest.done, commits |-> <<c>> \o rest.commits]

walk_all(mt, parents, i, depth) ==
    IF i > Len(parents) THEN [done |-> TRUE, commits |-> <<>>]
    ELSE LET w == walk(mt, parents[i], depth)
         IN IF ~w.done THEN w
            ELSE LET rest == walk_all(mt, parents, i + 1, depth)
                 IN [done |-> rest.done, commits |-> w.commits \o rest.commits]

\* C5: on every commit graph, a diamond included, the history walk from
\* any commit ends, within as many nested calls as there are commits, and
\* the merge-base scan of any two histories returns a result: no commit, or
\* a commit of both.
C5_WalkEnds ==
    /\ \A c \in 1..Len(meta) : walk(meta, c, Len(meta)).done
    /\ \A c, h \in 1..Len(meta) :
          LET commits == get_all_commits(meta, c)
              base == common_commit(commits, get_all_commits(meta, h))
          IN /\ commits = walk(meta, c, Len(meta)).commits
             /\ \/ base = <<>>
                \/ /\ InSeq(base[1], commits)
                   /\ InSeq(base[1], get_all_commits(meta, h))

\* A diamond: a merge commit m of two commits that have the same parent, the
\* walk from m meeting that parent twice.
C5_Witness ==
    \E m \in 1..Len(meta) :
        /\ Len(meta[m].parent) = 2
        /\ meta[m].parent[1] # meta[m].parent[2]
        /\ meta[meta[m].parent[1]].parent = meta[meta[m].parent[2]].parent
        /\ Len(meta[meta[m].parent[1]].parent) = 1
        /\ Len(get_all_commits(meta, m)) = 5
        /\ C5_WalkEnds

\* C6: when HEAD and the source each changed the one line of the same file
\* to a text that differs from the common ancestor's and from the other's
\* (the common ancestor being the first commit of the source history that is
\* in the HEAD history), merge ends with MergeConflict, leaves the staging area as it was and
\* creates no commit.
C6_ConflictSafety ==
    HasCommit =>
        \A t \in Targets(WideCommits) :
            LET src == resolve(references, t)
            IN Exists(src) =>
                LET base == first_common(get_all_commits(meta, src),
                                         get_all_commits(meta, HeadId))
                    r == merge(Cur, t)
                IN (/\ base # <<>>
                    /\ \E p \in Paths :
                          /\ isfile(images[base[1]], p)
                          /\ isfile(images[HeadId], p)
                          /\ isfile(images[src], p)
                          /\ images[base[1]][p] # images[HeadId][p]
                          /\ images[base[1]][p] # images[src][p]
                          /\ images[HeadId][p] # images[src][p])
                   => /\ r.res = "MergeConflict"
                      /\ r.st.staging = staging
                      /\ r.st.images = images

\* C7: a merge that creates a commit creates one commit, whose parent list
\* is HEAD before the merge followed by the source commit, and leaves HEAD
\* and the activated branch's reference on the new commit.
C7_MergeCommit ==
    HasCommit =>
        \A t \in Targets(MaxHistory) :
            LET r == merge(Cur, t)
                new == Len(images) + 1
            IN r.res = "ok" =>
                /\ Len(r.st.images) = new
                /\ Len(r.st.meta) = new
                /\ r.st.meta[new].parent = <<HeadId, resolve(references, t)>>
                /\ get_head_commit_id(r.st.references) = new
                /\ activated \in DOMAIN get_branches(r.st.references)
                /\ get_branches(r.st.references)[activated] = new

\* A merge has made the newest commit, of two different parents, and HEAD
\* and the activated branch are on it.
C7_Witness ==
    /\ HasCommit
    /\ Len(meta[Len(meta)].parent) = 2
    /\ meta[Len(meta)].parent[1] # meta[Len(meta)].parent[2]
    /\ HeadId = Len(meta)
    /\ get_branches(references)[activated] = Len(meta)

\* C8: branch feature created, a commit made on feature, master checked
\* out, feature merged: every file changed or added on feature since the
\* common ancestor (master's commit, which is HEAD) has feature's content in
\* the working tree.
C8_MergeIntoWorkTree ==
    (/\ HasCommit
     /\ activated = "master"
     /\ DOMAIN get_branches(references) = {"master", "feature"}
     /\ get_branches(references)["master"] = HeadId
     /\ get_branches(references)["feature"] # HeadId
     /\ InSeq(HeadId, get_all_commits(meta, get_branches(references)["feature"]))
     /\ staging = images[HeadId]
     /\ work = images[HeadId])
    => LET src == get_branches(references)["feature"]
           r == merge(Cur, BranchTarget("feature"))
       IN r.res = "ok" =>
            \A p \in Paths :
                (isfile(images[src], p) /\ images[src][p] # images[HeadId][p])
                    => r.st.work[p] = images[src][p]

\* C9: the first commit of a repository has the empty parent list, and
\* leaves the reference set with exactly HEAD and master, in this order,
\* both on the new commit.
C9_FirstCommit ==
    (wit /\ references = <<>>) =>
        LET r == commit(Cur, UserMessage, <<>>)
        IN /\ r.res = "ok"
           /\ Len(r.st.meta) = 1
           /\ get_parents(r.st.meta, 1) = <<>>
           /\ r.st.references = <<[name |-> "HEAD", commit |-> 1],
                                  [name |-> "master", commit |-> 1]>>

\* The first commit has been made, of a staged file, and nothing after it.
C9_Witness ==
    /\ Len(images) = 1
    /\ isfile(images[1], <<"a">>)
    /\ meta[1].parent = <<>>
    /\ references = <<[name |-> "HEAD", commit |-> 1],
                      [name |-> "master", commit |-> 1]>>

\* C10: the merge base merge uses is the first identifier, in the walk
\* order of the source history, that is also in the HEAD history.
C10_FirstCommonBase ==
    HasCommit =>
        \A t \in BranchTargets :
            LET src == resolve(references, t)
            IN Exists(src) =>
                merge_base(Cur, src) =
                    first_common(get_all_commits(meta, src), get_all_commits(meta, HeadId))

\* C11: when status reports a change to commit or a change not staged,
\* checkout ends with UncommittedChanges and does nothing: working tree,
\* staging area, HEAD, every branch reference and the activated branch marker
\* are as before.
C11_BlockedCheckout ==
    HasCommit =>
        LET st == status(Cur)
        IN (Len(st.changes_to_commit) > 0 \/ Len(st.changes_not_staged) > 0) =>
              \A t \in Targets(MaxCommits) : \A r \in checkout(Cur, t) :
                  /\ r.res = "UncommittedChanges"
                  /\ r.st = Cur

\* A committed file edited in the working tree and not staged again, nothing
\* else being changed: status reports it, and only as not staged.
C11_Witness ==
    /\ HasCommit
    /\ Len(status(Cur).changes_to_commit) = 0
    /\ Len(status(Cur).changes_not_staged) > 0
    /\ \E r \in checkout(Cur, BranchTarget("master")) : r.res = "UncommittedChanges"

\* C12: whenever the staging area differs from HEAD's snapshot (a staged
\* path added, removed or of another content) or a staged file has another
\* content in the working tree, a checkout of an existing commit ends with
\* UncommittedChanges and overwrites neither the staging area nor the working
\* tree.
C12_DirtyBlocksCheckout ==
    HasCommit =>
        ((\/ staging # images[HeadId]
          \/ \E p \in Paths : /\ isfile(staging, p)
                              /\ isfile(work, p)
                              /\ work[p] # staging[p])
         => \A t \in Targets(MaxCommits) : \A r \in checkout(Cur, t) :
                Exists(resolve(references, t)) =>
                    /\ r.res = "UncommittedChanges"
                    /\ r.st.staging = staging
                    /\ r.st.work = work)

\* C13: a file that is untracked when checkout is called (in the working
\* tree, not in the staging area) has the same content after the checkout,
\* also when the target snapshot has a file at its path.
C13_UntrackedKept ==
    HasCommit =>
        \A t \in Targets(MaxCommits) : \A r \in checkout(Cur, t) :
            \A p \in Paths :
                (isfile(work, p) /\ staging[p].kind = "none")
                    => r.st.work[p] = work[p]

\* C14: after a successful checkout the staging area is the target commit's
\* snapshot, same paths and same contents: a path staged before and absent
\* from the snapshot is staged no more.
C14_StagingReplaced ==
    HasCommit =>
        \A t \in Targets(MaxCommits) : \A r \in checkout(Cur, t) :
            r.res = "ok" => r.st.staging = images[resolve(references, t)]

\* C15: a checkout of a raw commit identifier with an existing snapshot, not
\* blocked and with nothing failing to copy, sets HEAD to that identifier and
\* leaves every branch reference, the previously activated branch's
\* included, unchanged.
C15_RawCheckout ==
    HasCommit =>
        \A c \in 1..Len(images) : \A r \in checkout(Cur, IdTarget(c)) :
            r.res \notin {"UncommittedChanges", "FilesystemError"} =>
                /\ get_head_commit_id(r.st.references) = c
                /\ get_branches(r.st.references) = get_branches(references)

\* C16: a successful checkout of a branch name sets HEAD to the commit the
\* branch maps to, sets the activated branch marker to the name, and leaves
\* the commit of every branch, the target's and the others', unchanged.
C16_BranchCheckout ==
    HasCommit =>
        \A n \in BranchNames : \A r \in checkout(Cur, BranchTarget(n)) :
            r.res = "ok" =>
                /\ n \in DOMAIN get_branches(references)
                /\ get_head_commit_id(r.st.references) = get_branches(references)[n]
                /\ r.st.activated = n
                /\ get_branches(r.st.references) = get_branches(references)

\* The branch feature has been checked out while master is on a later
\* commit: HEAD is back on feature's commit and the tree is its snapshot.
C16_Witness ==
    /\ HasCommit
    /\ activated = "feature"
    /\ DOMAIN get_branches(references) = {"master", "feature"}
    /\ get_branches(references)["feature"] = HeadId
    /\ get_branches(references)["master"] > HeadId
    /\ work = images[HeadId]
    /\ isfile(work, <<"a">>)

\* C17: branch(name), once a commit exists: when name is already an entry of
\* the reference set it ends with BranchExists and the reference set is
\* unchanged; otherwise the reference set gains the one entry name, on the
\* current HEAD, after the existing entries, whose names, values and order
\* are unchanged, and the activated branch marker is unchanged.
C17_Branch ==
    HasCommit =>
        \A n \in BranchNames \cup {"HEAD"} :
            LET r == branch(Cur, n)
                others == [r.st EXCEPT !.references = references]
            IN /\ others = Cur
               /\ IF \E i \in 1..Len(references) : references[i].name = n
                  THEN r.res = "BranchExists" /\ r.st.references = references
                  ELSE /\ r.res = "ok"
                       /\ Len(r.st.references) = Len(references) + 1
                       /\ SubSeq(r.st.references, 1, Len(references)) = references
                       /\ r.st.references[Len(references) + 1] =
                              [name |-> n, commit |-> HeadId]

\* The branch feature has been made after a second commit: it is the last
\* entry, on HEAD, and making it again is refused.
C17_Witness ==
    /\ HasCommit
    /\ Len(references) = 3
    /\ references[1].name = "HEAD"
    /\ references[2].name = "master"
    /\ references[3] = [name |-> "feature", commit |-> 2]
    /\ HeadId = 2
    /\ branch(Cur, "feature").res = "BranchExists"

\* C18: a commit, once made, keeps its snapshot (paths and contents), its
\* parent list and its message in every later state, whatever add, rm,
\* commit, branch, checkout and merge do, and is never removed from the store.
C18_CommitImmutable ==
    [][/\ Len(images') >= Len(images)
       /\ Len(meta') >= Len(meta)
       /\ \A c \in 1..Len(images) : images'[c] = images[c]
       /\ \A c \in 1..Len(meta) : meta'[c] = meta[c]]_vars

\* Two commits of different snapshots have been made, the first has been
\* checked out again, and the file has been edited and staged since.
C18_Witness ==
    /\ Len(images) = 2
    /\ images[1] # images[2]
    /\ isfile(images[1], <<"a">>)
    /\ Len(meta[2].parent) = 1
    /\ HeadId = 1
    /\ staging # images[1]
    /\ staging # images[2]

\* The target names neither a branch nor an existing commit.
NoSuchTarget(t) == ~Exists(resolve(references, t))

\* How an expected error has to end: reported, nothing changed.
Reported(r) ==
    /\ r.res \notin {"ok", "crash"}
    /\ r.st = Cur

\* C19: merge or checkout called before any commit exists, or with a target
\* that is neither a branch name nor the identifier of an existing commit,
\* ends in a reported failure with reference set, activated branch marker,
\* staging area, working tree and snapshot store unchanged, never in an
\* unhandled exception.
C19_NoCrash ==
    wit =>
        \A t \in Targets(MaxCommits + 1) :
            (references = <<>> \/ NoSuchTarget(t)) =>
                /\ Reported(merge(Cur, t))
                /\ \A r \in checkout(Cur, t) : Reported(r)

\* C20: add(path) of a file of the working tree, the confirmation not
\* declined, leaves in the staging area, at the file's path from the
\* repository root, a file of the working-tree content, also when no parent
\* directory of the file was staged before; no other staged path changes
\* (but for the parent directories it takes).
C20_AddFile ==
    wit =>
        \A p \in Paths : \A ans \in {"y", "n"} :
            (isfile(work, p) /\ ~(isfile(staging, p) /\ ans = "n")) =>
                LET r == add(Cur, p, ans)
                IN /\ r.st.staging[p] = work[p]
                   /\ \A q \in Paths :
                         (q # p /\ q # Parent(p)) => r.st.staging[q] = staging[q]

\* C21: the history of a commit c is c followed by the history of each
\* parent of c in the recorded parent order, nothing left out for having
\* been listed before: in a diamond a commit reached through both parents of
\* a merge commit is listed once per path that reaches it.
C21_WalkOrder ==
    /\ \A c \in 1..Len(meta) : walk(meta, c, Len(meta)).done
    /\ \A c \in 1..Len(meta) :
          LET parents == meta[c].parent
              H(p) == get_all_commits(meta, p)
          IN get_all_commits(meta, c) =
                 IF Len(parents) = 0 THEN <<c>>
                 ELSE IF Len(parents) = 1 THEN <<c>> \o H(parents[1])
                 ELSE <<c>> \o H(parents[1]) \o H(parents[2])

\* A diamond: the history of a merge commit m lists the parent its two
\* parents share twice, after each of them.
C21_Witness ==
    \E m \in 1..Len(meta) :
        /\ Len(meta[m].parent) = 2
        /\ meta[m].parent[1] # meta[m].parent[2]
        /\ \E root \in 1..Len(meta) :
              /\ meta[meta[m].parent[1]].parent = <<root>>
              /\ meta[meta[m].parent[2]].parent = <<root>>
              /\ meta[root].parent = <<>>
              /\ get_all_commits(meta, m) =
                     <<m, meta[m].parent[1], root, meta[m].parent[2], root>>

\* C22: a commit made by the commit command (not by merge) while a commit
\* already exists has exactly one parent, the commit HEAD was on just before,
\* and afterwards HEAD and the activated branch's reference are both on the
\* new commit.
C22_OrdinaryCommit ==
    HasCommit =>
        LET r == commit(Cur, UserMessage, <<>>)
            new == Len(images) + 1
        IN r.res = "ok" =>
              /\ Len(r.st.meta) = new
              /\ get_parents(r.st.meta, new) = <<HeadId>>
              /\ get_head_commit_id(r.st.references) = new
              /\ activated \in DOMAIN get_branches(r.st.references)
              /\ get_branches(r.st.references)[activated] = new

\* The second commit has been made on the branch feature after the first on
\* master: its one parent is the first, HEAD and feature are on it, master
\* is not.
C22_Witness ==
    /\ Len(meta) = 2
    /\ meta[2].parent = <<1>>
    /\ meta[2].message = UserMessage
    /\ activated = "feature"
    /\ references = <<[name |-> "HEAD", commit |-> 2],
                      [name |-> "master", commit |-> 1],
                      [name |-> "feature", commit |-> 2]>>

\* The paths merge has to write for the source src on the basis base: those
\* the two diffs of the snapshots report, and what lies below them.
MergedPaths(base, src) ==
    LET presence == get_dirs_diffs(images[base], images[src], FALSE)
        content == get_dirs_diffs(images[base], images[src], TRUE)
        reported == {presence[i] : i \in 1..Len(presence)}
                    \cup {content[i] : i \in 1..Len(content)}
    IN {p \in Paths : p \in reported \/ Parent(p) \in reported}

\* C23: merge changes in the staging area only the paths the presence diff
\* and the content diff of the merge-base snapshot and the source snapshot
\* report: each of them, a file or an added directory, ends with what the
\* source snapshot holds there, and every other staged path is as before
\* (a directory a written path lies in apart).
C23_MergeFrame ==
    HasCommit =>
        \A t \in BranchTargets :
            LET src == resolve(references, t)
            IN Exists(src) =>
                LET base == merge_base(Cur, src)
                    r == merge(Cur, t)
                IN (/\ base # <<>>
                    /\ base = first_common(get_all_commits(meta, src),
                                           get_all_commits(meta, HeadId)))
                   => \A p \in Paths :
                        IF p \in MergedPaths(base[1], src)
                        THEN r.st.staging[p] = images[src][p]
                        ELSE (\A q \in MergedPaths(base[1], src) : Parent(q) # p)
                                => r.st.staging[p] = staging[p]

\* The rows both edited files have, and the rows either has.
BothRows == 1..(IF Len(head_file) < Len(branch_file)
                THEN Len(head_file) ELSE Len(branch_file))
AllRows == 1..(IF Len(head_file) < Len(branch_file)
               THEN Len(branch_file) ELSE Len(head_file))

\* The line the positional rule gives row i, no conflict being there.
RuleLine(i) ==
    IF i > Len(branch_file) THEN head_file[i]
    ELSE IF i > Len(head_file) THEN branch_file[i]
    ELSE IF common_file[i] = head_file[i] /\ common_file[i] # branch_file[i]
    THEN branch_file[i]
    ELSE head_file[i]

\* C24: for an ancestor that has a line at every row both sides have,
\* merge_common_changes follows the positional rule: at every row below the
\* longer side's length the output line is the other side's when one side has
\* no such row, the branch line when the ancestor's equals the head line and
\* differs from the branch line, the head line when the ancestor's equals the
\* branch line; and when at some row the ancestor's line differs from both
\* sides' the call ends with MergeConflict (ValueError) and writes nothing to
\* the destination.
C24_PositionalRule ==
    (raised # "pending" /\ \A i \in BothRows : i <= Len(common_file)) =>
        IF \E i \in BothRows : /\ common_file[i] # head_file[i]
                               /\ common_file[i] # branch_file[i]
        THEN raised = "ValueError" /\ dst_file = NoFile
        ELSE /\ raised = "none"
             /\ dst_file.written
             /\ DOMAIN dst_file.lines = AllRows
             /\ \A i \in AllRows : dst_file.lines[i] = RuleLine(i)

\* A merge written: the branch file is the longer, one row was changed only
\* in the branch file and one only in the head file.
C24_Witness ==
    /\ raised = "none"
    /\ dst_file.written
    /\ Len(branch_file) > Len(head_file)
    /\ Len(dst_file.lines) = Len(branch_file)
    /\ \E i \in BothRows : /\ common_file[i] = head_file[i]
                           /\ common_file[i] # branch_file[i]
                           /\ dst_file.lines[i] = branch_file[i]

\* C27: for every three files, an ancestor of fewer lines than both edited
\* versions included, merge_common_changes ends by writing a merged result
\* or with MergeConflict (ValueError), never with another failure.
C27_Total ==
    raised # "pending" =>
        \/ raised = "none" /\ dst_file.written
        \/ raised = "ValueError"

\* The commits recorded with an empty parent line.
Roots == {c \in 1..Len(meta) : get_parents(meta, c) = <<>>}

\* C25: once there is a commit, exactly one commit has an empty parent list,
\* the history walk from every commit reaches it, the merge-base scan of the
\* histories of any two commits finds a common commit, and merge of a source
\* that exists never ends with NoCommonAncestor.
C25_SingleRoot ==
    HasCommit =>
        /\ \A c \in 1..Len(meta) : walk(meta, c, Len(meta)).done
        /\ Cardinality(Roots) = 1
        /\ \A c \in 1..Len(meta) : \A r \in Roots :
              InSeq(r, get_all_commits(meta, c))
        /\ \A c, h \in 1..Len(meta) :
              common_commit(get_all_commits(meta, c), get_all_commits(meta, h)) # <<>>
        /\ \A t \in Targets(MaxHistory) :
              Exists(resolve(references, t)) =>
                  merge(Cur, t).res # "NoCommonAncestor"

\* HEAD and another branch have diverged: neither commit is in the history
\* of the other, and the merge of that branch finds the base and is made.
C25_Witness ==
    /\ HasCommit
    /\ \E t \in BranchTargets :
          LET src == resolve(references, t)
          IN /\ Exists(src)
             /\ ~InSeq(src, get_all_commits(meta, HeadId))
             /\ ~InSeq(HeadId, get_all_commits(meta, src))
             /\ merge_base(Cur, src) # <<>>
             /\ merge(Cur, t).res = "ok"

\* C26: once there is a commit, the activated branch marker names a branch
\* that has a line in the reference file, and HEAD is the commit of that
\* branch.
C26_ActivatedIsHead ==
    HasCommit =>
        /\ activated \in DOMAIN get_branches(references)
        /\ get_branches(references)[activated] = HeadId

\* The activated branch is not master and has moved on from the commit
\* master stayed at.
C26_Witness ==
    /\ HasCommit
    /\ activated = "feature"
    /\ "master" \in DOMAIN get_branches(references)
    /\ "feature" \in DOMAIN get_branches(references)
    /\ get_branches(references)["feature"] = HeadId
    /\ get_branches(references)["master"] # HeadId

\* C28: when the staging area equals the snapshot of HEAD, merge of a source
\* that is HEAD or a commit in the history of HEAD changes nothing: the
\* staging area is as before, no commit is created, and HEAD and every
\* branch reference keep their values.
C28_MergeOfAncestor ==
    HasCommit =>
        \A t \in Targets(MaxHistory) :
            LET src == resolve(references, t)
            IN (/\ Exists(src)
                /\ InSeq(src, get_all_commits(meta, HeadId))
                /\ staging = images[HeadId]) =>
                   LET r == merge(Cur, t)
                   IN /\ r.st.staging = staging
                      /\ r.st.images = images
                      /\ r.st.meta = meta
                      /\ r.st.references = references

=============================================================================
